---- MODULE Spec2Model ----
(***************************************************************************)
(* A state-machine model of climt's GFS dynamical-core adapter             *)
(* (climt/_components/gfs/component.py) and of the helpers of              *)
(* climt/_core/util.py.                                                    *)
(*                                                                         *)
(* Grid-space fields are functions from a small set of grid points to      *)
(* integers; the 10x10x10 random index arrays of the state signature are a *)
(* short sequence of grid-point indices.  The compiled spectral kernel     *)
(* (_gfs_dynamics) is opaque: it is modelled by the order of the calls it  *)
(* receives and by a nondeterministic in-place update of the arrays that   *)
(* were handed to it.                                                      *)
(***************************************************************************)
EXTENDS Integers, Sequences, FiniteSets, TLC

\* ------------------------------------------------------------------ bounds
NumPoints == 2      \* grid points of a field
SampleLen == 1      \* entries of the random index arrays
MaxSteps == 2       \* advance calls in one run
MaxMutations == 1   \* direct caller mutations in one run

Points == 1..NumPoints

\* ------------------------------------------------- declared quantity tables
_climt_inputs ==
    { "eastward_wind", "northward_wind", "air_temperature",
      "surface_air_pressure", "air_pressure",
      "air_pressure_on_interface_levels", "specific_humidity",
      "surface_geopotential", "atmosphere_relative_vorticity",
      "divergence_of_wind", "mole_fraction_of_ozone_in_air",
      "mass_content_of_cloud_ice_in_atmosphere_layer",
      "mass_content_of_cloud_liquid_water_in_atmosphere_layer",
      "gfs_tracers" }

\* Faulty variant (sensitivity of C15): the driving fields are left out.
_climt_outputs_without_driving_fields ==
    { "eastward_wind", "northward_wind", "air_temperature",
      "air_pressure", "air_pressure_on_interface_levels",
      "surface_air_pressure", "specific_humidity",
      "mole_fraction_of_ozone_in_air",
      "mass_content_of_cloud_ice_in_atmosphere_layer",
      "mass_content_of_cloud_liquid_water_in_atmosphere_layer", "gfs_tracers" }

_climt_outputs ==
    { "eastward_wind", "northward_wind", "air_temperature",
      "air_pressure", "air_pressure_on_interface_levels",
      "surface_air_pressure", "specific_humidity",
      "surface_geopotential", "atmosphere_relative_vorticity",
      "divergence_of_wind", "mole_fraction_of_ozone_in_air",
      "mass_content_of_cloud_ice_in_atmosphere_layer",
      "mass_content_of_cloud_liquid_water_in_atmosphere_layer" }

\* The five quantities the state signature samples.
TrackedQuantities ==
    { "eastward_wind", "northward_wind", "air_temperature",
      "air_pressure", "surface_air_pressure" }

VARIABLES
    hashSeed,     \* the interpreter's per-process hash key
    self,         \* the adapter instance's attributes
    state,        \* the state mapping the caller holds
    kernel,       \* what the kernel was handed / issued during the last call
    last,         \* record of the last advance call (history)
    nSteps,       \* advance calls made so far
    nResync,      \* update_spectral_arrays invocations so far
    nMutations,   \* direct caller mutations so far
    mutated,      \* the caller mutated `state` since the last advance call
    ctor,         \* record of the last constructor call (history)
    extra_dimensions,  \* the class attribute extra_dimensions['tracer_number']
    dirtyCalls,   \* advance calls after the first that followed a mutation
    klass,        \* attributes of the throttled prognostic class
    instances,    \* the attribute dictionary of each of its instances
    calls,        \* log of the throttled calls: who, when, recomputed, returned
    asmIn,        \* arguments of return_tendency_arrays_or_zeros
    asmOut,       \* what the call returned or raised
    utilIn,       \* a call of a helper of _core/util.py: its name and arguments
    utilOut,      \* what that call returned or raised
    adapters,     \* the adapter instances of one process, by name
    kernelLog,    \* every call the process-wide kernel received, and from whom
    roundTrip     \* a temperature taken to virtual temperature and back

adapterVars == << hashSeed, self, state, kernel, last, nSteps, nResync,
                  nMutations, mutated, ctor, extra_dimensions, dirtyCalls >>
throttleVars == << klass, instances, calls >>
assemblerVars == << asmIn, asmOut >>
utilVars == << utilIn, utilOut >>
fleetVars == << adapters, kernelLog >>
numericVars == << roundTrip >>

vars == << adapterVars, throttleVars, assemblerVars, utilVars, fleetVars,
           numericVars >>


NumSlots == 4   \* the four named tracer slots (number_of_tracers = 0)
Slots == 0..(NumSlots - 1)

\* ---------------------------------------------------------------- hashing
\* Python's hash() of a bytes object: a keyed many-to-one function into a
\* finite integer range; the key is drawn once per process.
HashModulus == 1009
HashMultiplier == 31

RECURSIVE HashPrefix(_, _, _)
HashPrefix(key, bytes, n) ==
    IF n = 0
    THEN key % HashModulus
    ELSE ( HashPrefix(key, bytes, n - 1) * HashMultiplier + bytes[n] + 1 )
         % HashModulus

BytesHash(key, bytes) == HashPrefix(key, bytes, Len(bytes))

\* Two process keys: under the first an all-zero sample hashes to 1000.
HashSeeds == { 553, 7 }

\* The value initialise_state_signature seeds the five stored hashes with.
DefaultHash == 1000

\* -------------------------------------------------------- state signature
\* field[self._random_slice_x, self._random_slice_y, self._random_slice_z]
SampleOf(slf, field) ==
    [ k \in 1..Len(slf._random_slice) |-> field[slf._random_slice[k]] ]

calculate_state_signature(slf, key, state_arr) ==
    [ hash_u     |-> BytesHash(key, SampleOf(slf, state_arr["eastward_wind"])),
      hash_v     |-> BytesHash(key, SampleOf(slf, state_arr["northward_wind"])),
      hash_temp  |-> BytesHash(key, SampleOf(slf, state_arr["air_temperature"])),
      hash_press |-> BytesHash(key, SampleOf(slf, state_arr["air_pressure"])),
      hash_ps    |-> BytesHash(key, SampleOf(slf, state_arr["surface_air_pressure"])) ]

\* The five hashes the instance stores.
StoredSignature(slf) ==
    [ hash_u     |-> slf._hash_u,
      hash_v     |-> slf._hash_v,
      hash_temp  |-> slf._hash_temp,
      hash_press |-> slf._hash_press,
      hash_ps    |-> slf._hash_surf_press ]

WithSignature(slf, sig) ==
    [ slf EXCEPT !._hash_u = sig.hash_u,
                 !._hash_v = sig.hash_v,
                 !._hash_temp = sig.hash_temp,
                 !._hash_surf_press = sig.hash_ps,
                 !._hash_press = sig.hash_press ]

\* Faulty variant (sensitivity of C3): the temperature hash is not compared.
SignatureDiffersIgnoringTemperature(slf, sig) ==
    \/ sig.hash_u # slf._hash_u
    \/ sig.hash_v # slf._hash_v
    \/ sig.hash_press # slf._hash_press
    \/ sig.hash_ps # slf._hash_surf_press

\* The condition of state_is_modified_externally.
SignatureDiffers(slf, sig) ==
    \/ sig.hash_u # slf._hash_u
    \/ sig.hash_v # slf._hash_v
    \/ sig.hash_press # slf._hash_press
    \/ sig.hash_ps # slf._hash_surf_press
    \/ sig.hash_temp # slf._hash_temp

\* state_is_modified_externally, given the five fresh hashes: its return
\* value and the instance after it.
state_is_modified_externally(slf, sig) ==
    IF SignatureDiffers(slf, sig)
    THEN [ modified |-> TRUE,  slf |-> WithSignature(slf, sig) ]
    ELSE [ modified |-> FALSE, slf |-> slf ]

\* Faulty variant (sensitivity of C1): the signature of the output is not
\* stored at the end of the call.
keep_stale_signature(slf, sig) == slf

\* store_current_state_signature, given the five hashes of output_arr
\* Faulty variant (sensitivity of C18): the two pressure hashes are stored
\* in each other's attribute.
store_signature_pressures_swapped(slf, sig) ==
    WithSignature(slf, [ sig EXCEPT !.hash_press = sig.hash_ps,
                                    !.hash_ps = sig.hash_press ])

store_current_state_signature(slf, sig) == WithSignature(slf, sig)

initialise_state_signature(slf, slice) ==
    [ _random_slice    |-> slice,
      _hash_u          |-> DefaultHash,
      _hash_v          |-> DefaultHash,
      _hash_temp       |-> DefaultHash,
      _hash_press      |-> DefaultHash,
      _hash_surf_press |-> DefaultHash ] @@ slf

SliceChoices ==
    { s \in [ 1..SampleLen -> Points ] :
        \A i \in 1..(SampleLen - 1) : s[i] < s[i + 1] }


\* ------------------------------------------------------------ constructor
DefaultLatitudes == 94
DefaultLongitudes == 198
SupportedLevels == 28
BaseTracers == 4

MaxLons == 12          \* longitude counts 1..MaxLons are tried, and the default
MaxExtraTracers == 1   \* number_of_tracers up to this

DefaultArgs ==
    [ number_of_latitudes     |-> DefaultLatitudes,
      number_of_longitudes    |-> DefaultLongitudes,
      number_of_levels        |-> SupportedLevels,
      number_of_tracers       |-> 0,
      number_of_damped_levels |-> 0 ]

\* int(x) of the float x = num/den (den > 0): rounds toward zero.
IntOfQuotient(num, den) ==
    IF num >= 0 THEN num \div den ELSE -((-num) \div den)

\* Faulty variant (sensitivity of C8): floor division in place of int().
TruncationFloored(num_lons) == (num_lons \div 3) - 2

\* int(self._num_lons/3 - 2), true division
Truncation(num_lons) == IntOfQuotient(num_lons - 6, 3)

\* int((self._truncation + 1)*(self._truncation + 2)/2)
SpectralDim(truncation) ==
    IntOfQuotient((truncation + 1) * (truncation + 2), 2)

\* The five assert statements.
SanityChecks(args) ==
    /\ args.number_of_tracers >= 0
    /\ args.number_of_levels > 0
    /\ args.number_of_latitudes > 0
    /\ args.number_of_longitudes > 0
    /\ args.number_of_damped_levels >= 0

\* Faulty variant (sensitivity of C10): the level count is not checked.
LevelsNeverUnsupported(args) == FALSE

\* if self._num_levs != 28:
LevelsUnsupported(args) == args.number_of_levels # SupportedLevels

NoInstance == [ constructed |-> FALSE ]

KernelInitCalls ==
    << "set_time_step", "set_constants", "set_model_grid", "init_model" >>

\* GfsDynamicalCore.__init__: what it raises, the instance it leaves, the
\* kernel calls it issues and the class attribute extra_dimensions after it.
GfsInit(args, slice, cls_extra) ==
    IF ~SanityChecks(args)
    THEN [ raised |-> "AssertionError", slf |-> NoInstance,
           calls |-> << >>, grid |-> << >>, extra_dimensions |-> cls_extra ]
    ELSE IF LevelsUnsupported(args)
    THEN [ raised |-> "NotImplementedError", slf |-> NoInstance,
           calls |-> << >>, grid |-> << >>,
           extra_dimensions |-> args.number_of_tracers + BaseTracers ]
    ELSE LET trunc == Truncation(args.number_of_longitudes)
             sdim  == SpectralDim(trunc)
             base  == [ constructed     |-> TRUE,
                        _num_lats       |-> args.number_of_latitudes,
                        _num_lons       |-> args.number_of_longitudes,
                        _num_levs       |-> args.number_of_levels,
                        _damping_levels |-> args.number_of_damped_levels,
                        _num_tracers    |-> args.number_of_tracers + BaseTracers,
                        _truncation     |-> trunc,
                        _spectral_dim   |-> sdim ]
         IN  [ raised |-> "none",
               slf    |-> initialise_state_signature(base, slice),
               calls  |-> KernelInitCalls,
               grid   |-> << args.number_of_latitudes, args.number_of_longitudes,
                             args.number_of_levels, trunc, sdim,
                             args.number_of_tracers + BaseTracers >>,
               extra_dimensions |-> args.number_of_tracers + BaseTracers ]


\* ---------------------------------------------------------------- advance
\* Gas constants of the default constants table, in tenths of J kg^-1 K^-1.
GasConstantDryAir == 2870
GasConstantWaterVapor == 4615

\* 1 + fvirt*q with fvirt = (1 - Rd/Rv)/(Rd/Rv), times Rd
VirtualFactor(q) ==
    GasConstantDryAir + (GasConstantWaterVapor - GasConstantDryAir) * q

\* t_virt = T*(1 + fvirt*q), kept in units of 1/Rd kelvin
VirtualTemperature(T, q) == T * VirtualFactor(q)

\* t_virt/(1 + fvirt*q), rounded to the representable value below
AirTemperature(t_virt, q) == t_virt \div VirtualFactor(q)

\* Faulty variant (sensitivity of C9): cloud ice before cloud liquid water,
\* the order in which _climt_inputs lists them.
TracerBundleIceFirst(raw) ==
    [ k \in DOMAIN raw["gfs_tracers"] |->
        CASE k = 0 -> raw["specific_humidity"]
          [] k = 1 -> raw["mole_fraction_of_ozone_in_air"]
          [] k = 2 -> raw["mass_content_of_cloud_ice_in_atmosphere_layer"]
          [] k = 3 -> raw["mass_content_of_cloud_liquid_water_in_atmosphere_layer"]
          [] OTHER -> raw["gfs_tracers"][k] ]

\* raw_input_arrays['gfs_tracers'][:, :, :, k] = ... for k = 0..3
TracerBundle(raw) ==
    [ k \in DOMAIN raw["gfs_tracers"] |->
        CASE k = 0 -> raw["specific_humidity"]
          [] k = 1 -> raw["mole_fraction_of_ozone_in_air"]
          [] k = 2 -> raw["mass_content_of_cloud_liquid_water_in_atmosphere_layer"]
          [] k = 3 -> raw["mass_content_of_cloud_ice_in_atmosphere_layer"]
          [] OTHER -> raw["gfs_tracers"][k] ]

\* What one kernel step can do to an array it holds.
KernelOutcomes == { 0, 1 }

KernelStep(arr, d) == [ pt \in DOMAIN arr |-> arr[pt] + d ]

\* take_one_step, convert_to_grid and calculate_pressure write the new grid
\* values into the arrays the kernel holds.
KernelUpdate(raw, d) ==
    [ raw EXCEPT
        !["eastward_wind"] = KernelStep(@, d),
        !["northward_wind"] = KernelStep(@, d),
        !["gfs_tracers"] = [ k \in DOMAIN @ |-> KernelStep(@[k], d) ],
        !["surface_air_pressure"] = KernelStep(@, d),
        !["air_pressure"] = KernelStep(@, d) ]

\* What one kernel step adds to the virtual temperature it holds: two
\* kelvin of air at unit humidity.
VirtualStep == 2 * GasConstantWaterVapor

\* The kernel writes the stepped virtual temperature into the t_virt array
\* it was handed.
KernelVirtualStep(t_virt, d) ==
    [ pt \in DOMAIN t_virt |-> t_virt[pt] + d * VirtualStep ]

\* Faulty variant (sensitivity of C17): the spectral arrays are
\* resynchronised after the step instead of before it.
StepPlanResyncAfterStep(slf, update_spectral_arrays) ==
    << "assign_grid_arrays", "assign_pressure_arrays", "set_topography" >>
    \o (IF slf.prognostics THEN << "prognostics" >> ELSE << >>)
    \o << "assign_tendencies", "take_one_step" >>
    \o (IF update_spectral_arrays THEN << "update_spectral_arrays" >> ELSE << >>)
    \o << "convert_to_grid", "calculate_pressure" >>

\* The steps of __call__ that reach outside it, in program order.
StepPlan(slf, update_spectral_arrays) ==
    << "assign_grid_arrays", "assign_pressure_arrays", "set_topography" >>
    \o (IF slf.prognostics THEN << "prognostics" >> ELSE << >>)
    \o << "assign_tendencies" >>
    \o (IF update_spectral_arrays THEN << "update_spectral_arrays" >> ELSE << >>)
    \o << "take_one_step", "convert_to_grid", "calculate_pressure" >>

MaxPlanLen == 9

\* The steps that are made to raise: the contained physics, a kernel push
\* ahead of the resynchronisation, and the kernel step after it.
FailingSteps == { "prognostics", "assign_tendencies", "take_one_step" }

\* Lines 343-348: the kernel steps, writes the arrays it holds, and the air
\* temperature is recovered from the updated virtual temperature and
\* raw_input_arrays['specific_humidity'].
PostStep(raw1, t_virt, d) ==
    [ KernelUpdate(raw1, d) EXCEPT !["air_temperature"] =
        [ pt \in Points |->
            AirTemperature(KernelVirtualStep(t_virt, d)[pt],
                           raw1["specific_humidity"][pt]) ] ]

\* for quantity in self._climt_outputs.keys(): output_dict[quantity] = ...
\* (over the quantities the model carries)
OutputDict(raw) ==
    [ eastward_wind |-> raw.eastward_wind,
      northward_wind |-> raw.northward_wind,
      air_temperature |-> raw.air_temperature,
      air_pressure |-> raw.air_pressure,
      surface_air_pressure |-> raw.surface_air_pressure,
      specific_humidity |-> raw.specific_humidity,
      mole_fraction_of_ozone_in_air |-> raw.mole_fraction_of_ozone_in_air,
      mass_content_of_cloud_ice_in_atmosphere_layer |->
          raw.mass_content_of_cloud_ice_in_atmosphere_layer,
      mass_content_of_cloud_liquid_water_in_atmosphere_layer |->
          raw.mass_content_of_cloud_liquid_water_in_atmosphere_layer ]

\* dict.update: the entries of `new` replace or extend those of `old`.
DictUpdate(old, new) ==
    [ k \in DOMAIN old \cup DOMAIN new |->
        IF k \in DOMAIN new THEN new[k] ELSE old[k] ]

Count(seq, x) == Cardinality({ i \in DOMAIN seq : seq[i] = x })

ConstField(c) == [ pt \in Points |-> c ]

\* The state the caller starts from.  The model carries the ten quantities
\* the call computes with; interface pressure, surface geopotential, vorticity
\* and divergence are only passed through to the kernel and back.
InitialState ==
    [ eastward_wind |-> ConstField(0),
      northward_wind |-> ConstField(0),
      air_temperature |-> ConstField(0),
      surface_air_pressure |-> ConstField(0),
      air_pressure |-> ConstField(0),
      specific_humidity |-> ConstField(1),
      mole_fraction_of_ozone_in_air |-> ConstField(2),
      mass_content_of_cloud_ice_in_atmosphere_layer |-> ConstField(4),
      mass_content_of_cloud_liquid_water_in_atmosphere_layer |-> ConstField(3),
      gfs_tracers |-> [ k \in Slots |-> ConstField(9) ] ]

NoCall ==
    [ status |-> "none", first |-> FALSE, mutatedBefore |-> FALSE,
      input |-> << >>, stored |-> << >>, fresh |-> << >>, checked |-> << >>,
      update_spectral_arrays |-> FALSE, trace |-> << >>, returned |-> FALSE,
      outputs |-> {} ]

NoKernel ==
    [ calls |-> << >>, grid |-> << >>, pushed_tracers |-> << >>,
      tracers |-> << >>, t_virt |-> << >> ]

NoCtor == [ args |-> << >>, raised |-> "none", extra_before |-> BaseTracers ]

\* Quantities the caller may overwrite between calls.
CallerMutable == TrackedQuantities \cup { "specific_humidity" }

\* ------------------------------------------------------- update throttle
\* Python's None where a time is expected: no time is negative.
None == -1

MaxTime == 4          \* state['time'] ranges over 0..MaxTime
MaxCalls == 3         \* throttled calls in one run
NumInstances == 2     \* instances of the throttled class
UpdateTimedelta == 2  \* the update_timedelta the class is altered with

Instances == 1..NumInstances

\* original_call(self, state): the output the wrapped prognostic computes.
original_call(i, time) == [ by |-> i, at |-> time ]

\* Attribute lookup self.<name>: the instance dictionary, then the class.
GetAttr(cls, dict, name) ==
    IF name \in DOMAIN dict THEN dict[name]
    ELSE IF name \in DOMAIN cls THEN cls[name]
    ELSE "AttributeError"

\* Faulty variant (sensitivity of C4): strictly later than the interval.
UpdateOverdue(last_update_time, update_timedelta, time) ==
    \/ last_update_time = None
    \/ time > last_update_time + update_timedelta

\* self._last_update_time is None or
\* state['time'] >= self._last_update_time + self._update_timedelta
UpdateDue(last_update_time, update_timedelta, time) ==
    \/ last_update_time = None
    \/ time >= last_update_time + update_timedelta

\* Faulty variant (sensitivity of C5): the time of the last update is written
\* to the class, so every instance sees it.
ThrottledCallSharedTime(cls, dict, i, time) ==
    IF UpdateDue(GetAttr(cls, dict, "_last_update_time"),
                 GetAttr(cls, dict, "_update_timedelta"), time)
    THEN [ cls  |-> [ cls EXCEPT !._last_update_time = time ],
           dict |-> [ _cached_output |-> original_call(i, time) ] @@ dict,
           recomputed |-> TRUE,
           returned   |-> original_call(i, time) ]
    ELSE [ cls  |-> cls,
           dict |-> dict,
           recomputed |-> FALSE,
           returned   |-> GetAttr(cls, dict, "_cached_output") ]

\* Faulty variant (sensitivity of C24): the output is cached on the class,
\* so an instance that does not recompute returns the last output of any
\* instance.
ThrottledCallSharedCache(cls, dict, i, time) ==
    IF UpdateDue(GetAttr(cls, dict, "_last_update_time"),
                 GetAttr(cls, dict, "_update_timedelta"), time)
    THEN [ cls  |-> [ _cached_output |-> original_call(i, time) ] @@ cls,
           dict |-> [ _last_update_time |-> time ] @@ dict,
           recomputed |-> TRUE,
           returned   |-> original_call(i, time) ]
    ELSE [ cls  |-> cls,
           dict |-> dict,
           recomputed |-> FALSE,
           returned   |-> GetAttr(cls, dict, "_cached_output") ]

\* The wrapper __call__(self, state) installed on the class: the class and
\* instance dictionaries after it, whether original_call ran, what it returns.
ThrottledCall(cls, dict, i, time) ==
    IF UpdateDue(GetAttr(cls, dict, "_last_update_time"),
                 GetAttr(cls, dict, "_update_timedelta"), time)
    THEN [ cls  |-> cls,
           dict |-> [ _cached_output    |-> original_call(i, time),
                      _last_update_time |-> time ] @@ dict,
           recomputed |-> TRUE,
           returned   |-> original_call(i, time) ]
    ELSE [ cls  |-> cls,
           dict |-> dict,
           recomputed |-> FALSE,
           returned   |-> GetAttr(cls, dict, "_cached_output") ]

\* set_prognostic_update_frequency(prognostic_class, update_timedelta)
set_prognostic_update_frequency(update_timedelta) ==
    [ _update_timedelta |-> update_timedelta, _last_update_time |-> None ]

EmptyDict == [ x \in {} |-> None ]

\* The class has been altered; its instances hold no attribute of their own.
ThrottleIdle ==
    /\ klass = set_prognostic_update_frequency(UpdateTimedelta)
    /\ instances = [ i \in Instances |-> EmptyDict ]
    /\ calls = << >>

\* ------------------------------------------------------ tendency assembler
MaxListLen == 2       \* length of quantity_list
MaxDim == 2           \* extent of an array dimension

Quantities == { "air_temperature", "specific_humidity", "eastward_wind" }

\* array shapes: one or two dimensions
Shapes == { << n >> : n \in 1..MaxDim } \cup
          { << n, m >> : n \in 1..MaxDim, m \in 1..MaxDim }

Size(shape) == IF Len(shape) = 1 THEN shape[1] ELSE shape[1] * shape[2]

\* a numpy array: its shape, its elements, its memory order
Filled(shape, x, order) ==
    [ shape |-> shape, data |-> [ k \in 1..Size(shape) |-> x ], order |-> order ]

\* Faulty variant (sensitivity of C6): the array is allocated but not zeroed.
uninitialised(shape) == Filled(shape, 7, "F")

\* np.zeros(shape, dtype=np.double, order='F')
zeros(shape) == Filled(shape, 0, "F")

\* np.asfortranarray(a): the same shape and elements, Fortran order
asfortranarray(a) == [ a EXCEPT !.order = "F" ]

RECURSIVE TendencyLoop(_, _, _, _, _)
\* the for loop from its k-th iteration on, tendency_list being what the
\* earlier iterations appended; a raise discards the local list. The result
\* carries the two mappings as the call leaves them: the loop only reads them.
TendencyLoop(quantity_list, state_arr, tendencies, k, tendency_list) ==
    IF k > Len(quantity_list)
    THEN [ raised |-> "none", value |-> tendency_list,
           state |-> state_arr, tendencies |-> tendencies ]
    ELSE IF quantity_list[k] \in DOMAIN tendencies
    THEN TendencyLoop(quantity_list, state_arr, tendencies, k + 1,
             Append(tendency_list,
                    asfortranarray(tendencies[quantity_list[k]].values)))
    ELSE IF quantity_list[k] \in DOMAIN state_arr
    THEN TendencyLoop(quantity_list, state_arr, tendencies, k + 1,
             Append(tendency_list, zeros(state_arr[quantity_list[k]].shape)))
    ELSE [ raised |-> "IndexError", message |-> quantity_list[k],
           state |-> state_arr, tendencies |-> tendencies ]

\* Faulty variant (sensitivity of C7): a quantity found in neither mapping
\* is skipped instead of raising.
tendency_arrays_skipping_missing(quantity_list, state_arr, tendencies) ==
    TendencyLoop(SelectSeq(quantity_list,
                     LAMBDA q : q \in DOMAIN tendencies \cup DOMAIN state_arr),
                 state_arr, tendencies, 1, << >>)

\* Faulty variant (sensitivity of C20): the state is looked up first, so a
\* tendency for a quantity of the state is replaced by zeros.
tendency_arrays_state_first(quantity_list, state_arr, tendencies) ==
    [ TendencyLoop(quantity_list, state_arr,
                   [ q \in DOMAIN tendencies \ DOMAIN state_arr |->
                       tendencies[q] ],
                   1, << >>)
      EXCEPT !.tendencies = tendencies ]

return_tendency_arrays_or_zeros(quantity_list, state_arr, tendencies) ==
    TendencyLoop(quantity_list, state_arr, tendencies, 1, << >>)

QuantityLists ==
    UNION { [ 1..n -> Quantities ] : n \in 0..MaxListLen }

\* The arguments of one call: a list of names, a state and a tendency
\* mapping over the key sets sk and tk, arrays of shapes ss and ts holding
\* non-zero values.
AssemblerInput(ql, sk, tk, ss, ts) ==
    [ quantity_list |-> ql,
      state |-> [ q \in sk |-> Filled(ss, 7, "C") ],
      tendencies |-> [ q \in tk |-> [ values |-> Filled(ts, 5, "C") ] ] ]

NotCalled == [ raised |-> "not called" ]

AssemblerIdle ==
    /\ asmIn = << >>
    /\ asmOut = NotCalled

\* ------------------------------------------------- helpers of _core/util.py
MaxKeys == 3          \* keys a mapping can hold

Keys == { "k1", "k2", "k3", "k4" }
KeySets == { K \in SUBSET Keys : Cardinality(K) <= MaxKeys }

\* a mapping holding some value under each key of K
DictOver(K, x) == [ k \in K |-> x ]

\* Faulty variant (sensitivity of C11): one shared key is let through.
ensure_no_two_shared_keys(dict1, dict2) ==
    IF Cardinality(DOMAIN dict1 \cap DOMAIN dict2) > 1
    THEN [ raised |-> "SharedKeyException",
           message |-> DOMAIN dict1 \cap DOMAIN dict2,
           dict1 |-> dict1, dict2 |-> dict2 ]
    ELSE [ raised |-> "none", dict1 |-> dict1, dict2 |-> dict2 ]

\* ensure_no_shared_keys(dict1, dict2): what it raises, the set its message
\* formats, and the two mappings as the call leaves them.
ensure_no_shared_keys(dict1, dict2) ==
    IF Cardinality(DOMAIN dict1 \cap DOMAIN dict2) > 0
    THEN [ raised |-> "SharedKeyException",
           message |-> DOMAIN dict1 \cap DOMAIN dict2,
           dict1 |-> dict1, dict2 |-> dict2 ]
    ELSE [ raised |-> "none", dict1 |-> dict1, dict2 |-> dict2 ]

MaxArrays == 2        \* DataArrays handed to ensure_shared_coordinates

\* DataArrays as far as the check reads them: the axis names in order and
\* the coordinate values of each axis.
AxisOrders == { << "x" >>, << "x", "y" >>, << "y", "x" >> }
DataArrays ==
    { [ dims |-> d, coords |-> [ a \in { d[i] : i \in DOMAIN d } |-> c ] ] :
        d \in AxisOrders, c \in { 0, 1 } }

\* the arguments all have the same axis names, in the same order, and the
\* same coordinate values on each axis
SharedCoordinates(arrays) ==
    \A i \in DOMAIN arrays, j \in DOMAIN arrays :
        /\ arrays[i].dims = arrays[j].dims
        /\ arrays[i].coords = arrays[j].coords

\* the names a caller gives keyword arguments, in order
KeywordNames == << "a", "b", "c" >>

\* the dictionary **args receives: keyword name -> argument
Kwargs(arrays) ==
    [ name \in { KeywordNames[i] : i \in DOMAIN arrays } |->
        arrays[CHOOSE i \in DOMAIN arrays : KeywordNames[i] = name] ]

\* a subscript key: a str or an int, written out
StrKey(name) == [ type |-> "str", repr |-> name ]
IntKey(repr) == [ type |-> "int", repr |-> repr ]

\* key in args, for the dictionary of keyword arguments: its keys are str
HasKey(kwargs, key) == key.type = "str" /\ key.repr \in DOMAIN kwargs

\* ensure_shared_coordinates(**args) called with the arrays as positional
\* or as keyword arguments. A function declared with **args only takes no
\* positional argument; its body starts with args[0] on a dictionary whose
\* keys are the keyword names; past that, `for value in args` walks the
\* keys, which are str and have no dims.
ensure_shared_coordinates(style, arrays) ==
    IF style = "positional" /\ Len(arrays) > 0
    THEN [ raised |-> "TypeError" ]
    ELSE IF ~HasKey(Kwargs(arrays), IntKey("0"))
    THEN [ raised |-> "KeyError", message |-> "0" ]
    ELSE IF Len(arrays) > 0
    THEN [ raised |-> "AttributeError" ]
    ELSE [ raised |-> "none" ]

MaxRank == 4          \* number of axes of an array handed to ensure_3d

\* all shapes of at most MaxRank axes
ShapesOfRank(r) == [ 1..r -> 1..MaxDim ]

RECURSIVE NumElements(_)
NumElements(shape) ==
    IF shape = << >> THEN 1 ELSE Head(shape) * NumElements(Tail(shape))

\* an array of the shape whose elements, in index order, are all different
Arange(shape) ==
    [ shape |-> shape, data |-> [ k \in 1..NumElements(shape) |-> 10 + k ] ]

\* value[:, None, None], value[None, :, None], value[None, None, :]
Broadcast(value, axis) ==
    [ shape |-> [ i \in 1..3 |-> IF i = axis THEN value.shape[1] ELSE 1 ],
      data  |-> value.data ]

\* Faulty variant (sensitivity of C13): the second and third axis exchanged.
ensure_3d_axes_exchanged(value, data_dim_if_1d) ==
    IF Len(value.shape) = 3
    THEN [ raised |-> "none", value |-> value ]
    ELSE IF Len(value.shape) = 1
    THEN IF data_dim_if_1d = 1
         THEN [ raised |-> "none", value |-> Broadcast(value, 1) ]
         ELSE IF data_dim_if_1d = 2
         THEN [ raised |-> "none", value |-> Broadcast(value, 3) ]
         ELSE IF data_dim_if_1d = 3
         THEN [ raised |-> "none", value |-> Broadcast(value, 2) ]
         ELSE [ raised |-> "ValueError" ]
    ELSE [ raised |-> "ValueError" ]

\* ensure_3d(value, data_dim_if_1d)
ensure_3d(value, data_dim_if_1d) ==
    IF Len(value.shape) = 3
    THEN [ raised |-> "none", value |-> value ]
    ELSE IF Len(value.shape) = 1
    THEN IF data_dim_if_1d = 1
         THEN [ raised |-> "none", value |-> Broadcast(value, 1) ]
         ELSE IF data_dim_if_1d = 2
         THEN [ raised |-> "none", value |-> Broadcast(value, 2) ]
         ELSE IF data_dim_if_1d = 3
         THEN [ raised |-> "none", value |-> Broadcast(value, 3) ]
         ELSE [ raised |-> "ValueError" ]
    ELSE [ raised |-> "ValueError" ]

\* add_dicts_inplace.  A mapping holds, per key, either a reference to an
\* array object of the heap or a number; the heap gives each array object
\* its elements.
MaxSources == 2       \* mappings merged into one accumulator

MergeKeys == { "k1", "k2" }

ArrayValue(ref) == [ kind |-> "array", ref |-> ref ]
ScalarValue(val) == [ kind |-> "scalar", val |-> val ]

\* d[key] = v, for a mapping or for the heap
DictSet(d, key, v) ==
    [ k \in DOMAIN d \cup { key } |-> IF k = key THEN v ELSE d[k] ]

\* elementwise a + b of two arrays, and a + c of an array and a number
ArrayAdd(a, b) == [ n \in DOMAIN a |-> a[n] + b[n] ]
ArrayAddScalar(a, c) == [ n \in DOMAIN a |-> a[n] + c ]

\* One iteration of the loop, for `key` with v2 = dict2[key].  An absent key
\* is bound to the very object dict2 holds.  For a present key,
\* dict1[key][:] += dict2[key][:] writes into the array object dict1[key]
\* refers to; when either side is a number the slice raises TypeError and
\* dict1[key] += dict2[key] runs instead: in place for an array on the left,
\* binding a new object otherwise.
AddKey(dict1, heap, key, v2) ==
    IF key \notin DOMAIN dict1
    THEN [ dict1 |-> DictSet(dict1, key, v2), heap |-> heap ]
    ELSE IF dict1[key].kind = "array" /\ v2.kind = "array"
    THEN [ dict1 |-> dict1,
           heap |-> DictSet(heap, dict1[key].ref,
                            ArrayAdd(heap[dict1[key].ref], heap[v2.ref])) ]
    ELSE IF dict1[key].kind = "array"
    THEN [ dict1 |-> dict1,
           heap |-> DictSet(heap, dict1[key].ref,
                            ArrayAddScalar(heap[dict1[key].ref], v2.val)) ]
    ELSE IF v2.kind = "array"
    THEN [ dict1 |-> DictSet(dict1, key, ArrayValue(<< 0, key >>)),
           heap |-> DictSet(heap, << 0, key >>,
                            ArrayAddScalar(heap[v2.ref], dict1[key].val)) ]
    ELSE [ dict1 |-> DictSet(dict1, key,
                             ScalarValue(dict1[key].val + v2.val)),
           heap |-> heap ]

RECURSIVE AddLoop(_, _, _, _)
\* for key in dict2.keys(): the keys still to visit; the loop reads dict2
\* and never assigns to it
AddLoop(dict1, dict2, heap, keys) ==
    IF keys = {}
    THEN [ dict1 |-> dict1, heap |-> heap ]
    ELSE LET key == CHOOSE k \in keys : TRUE
             r == AddKey(dict1, heap, key, dict2[key])
         IN  AddLoop(r.dict1, dict2, r.heap, keys \ { key })

add_dicts_inplace(dict1, dict2, heap) ==
    AddLoop(dict1, dict2, heap, DOMAIN dict2)

\* The i-th source mapping over the keys K: its own array objects, or
\* numbers.
SourceDict(i, K, kind) ==
    [ k \in K |-> IF kind = "array" THEN ArrayValue(<< i, k >>)
                  ELSE ScalarValue(i) ]

\* The array objects the sources own, each with elements of its own.
SourceHeap(sources) ==
    [ ref \in { << i, k >> : i \in DOMAIN sources, k \in MergeKeys } |->
        << 10 * ref[1], 10 * ref[1] + 1 >> ]

EmptyAccumulator == [ k \in {} |-> ScalarValue(0) ]

UtilIdle ==
    /\ utilIn = [ op |-> "none" ]
    /\ utilOut = NotCalled

\* --------------------------------------------- several adapters, one kernel
NumAdapters == 2      \* adapter instances one process may construct

AdapterIds == 1..NumAdapters

\* the kernel calls of one constructor or advance call, marked with the
\* adapter that issued them
IssuedBy(a, kernel_calls) ==
    [ i \in DOMAIN kernel_calls |-> [ by |-> a, call |-> kernel_calls[i] ] ]

FleetIdle ==
    /\ adapters = [ a \in AdapterIds |-> NoInstance ]
    /\ kernelLog = << >>

\* ------------------------------------------------ floating-point round trip
\* Binary floating point with a short mantissa: a number is m * 2^e with
\* 2^(Precision-1) <= m < 2^Precision, or zero; every operation returns the
\* representable number nearest to the exact result, ties to even.
Precision == 10

TMin == 150           \* kelvin: the physical range of the temperature
TMax == 330
TSteps == 2           \* temperatures are tried every 1/TSteps kelvin
QSteps == 10          \* humidities are tried every 1/QSteps, from 0 up

RECURSIVE Pow2(_)
Pow2(k) == IF k = 0 THEN 1 ELSE 2 * Pow2(k - 1)

FloatZero == [ m |-> 0, e |-> 0 ]

\* num/den, whose quotient lies in [2^(Precision-1), 2^Precision), to the
\* nearest integer, ties to even, times 2^e
RoundMantissa(num, den, e) ==
    LET q == num \div den
        r == num % den
        m == IF 2 * r > den \/ (2 * r = den /\ q % 2 = 1) THEN q + 1 ELSE q
    IN  IF m = Pow2(Precision)
        THEN [ m |-> Pow2(Precision - 1), e |-> e + 1 ]
        ELSE [ m |-> m, e |-> e ]

RECURSIVE RoundScaled(_, _, _)
\* the representable number nearest to (num/den) * 2^e, for num, den > 0
RoundScaled(num, den, e) ==
    IF num >= den * Pow2(Precision)
    THEN RoundScaled(num, 2 * den, e + 1)
    ELSE IF num < den * Pow2(Precision - 1)
    THEN RoundScaled(2 * num, den, e - 1)
    ELSE RoundMantissa(num, den, e)

\* the representable number nearest to the fraction num/den
Float(num, den) == IF num = 0 THEN FloatZero ELSE RoundScaled(num, den, 0)

FloatOne == Float(1, 1)

\* x * y
FloatMul(x, y) ==
    IF x.m = 0 \/ y.m = 0 THEN FloatZero
    ELSE RoundScaled(x.m * y.m, 1, x.e + y.e)

\* x / y, y not zero
FloatDiv(x, y) ==
    IF x.m = 0 THEN FloatZero ELSE RoundScaled(x.m, y.m, x.e - y.e)

\* x + y for x, y >= 0 and x - y for x >= y >= 0
FloatAdd(x, y) ==
    IF x.m = 0 THEN y ELSE IF y.m = 0 THEN x
    ELSE LET e == IF x.e < y.e THEN x.e ELSE y.e
         IN  RoundScaled(x.m * Pow2(x.e - e) + y.m * Pow2(y.e - e), 1, e)

FloatSub(x, y) ==
    IF y.m = 0 THEN x
    ELSE LET e == IF x.e < y.e THEN x.e ELSE y.e
             d == x.m * Pow2(x.e - e) - y.m * Pow2(y.e - e)
         IN  IF d = 0 THEN FloatZero ELSE RoundScaled(d, 1, e)

\* self._fvirt = (1 - self._Rd/self._Rv)/(self._Rd/self._Rv)
fvirt ==
    FloatDiv(FloatSub(FloatOne, Float(GasConstantDryAir, GasConstantWaterVapor)),
             Float(GasConstantDryAir, GasConstantWaterVapor))

\* 1 + self._fvirt.values.item()*raw_input_arrays['specific_humidity']
HumidityFactor(q) == FloatAdd(FloatOne, FloatMul(fvirt, q))

\* t_virt = raw_input_arrays['air_temperature']*(1 + fvirt*q)
fl_virtual_temperature(T, q) == FloatMul(T, HumidityFactor(q))

\* Faulty variant (sensitivity of C16): the humidity is left out of the
\* inverse transform.
fl_air_temperature_dry(t_virt, q) == FloatDiv(t_virt, FloatOne)

\* raw_input_arrays['air_temperature'][:] = t_virt/(1 + fvirt*q)
fl_air_temperature(t_virt, q) == FloatDiv(t_virt, HumidityFactor(q))

NumericIdle == roundTrip = [ done |-> FALSE ]

\* The state right after GfsDynamicalCore() with default arguments, physics
\* attached or not, in a fresh process.
Init ==
    /\ hashSeed \in HashSeeds
    /\ \E slice \in SliceChoices, physics \in BOOLEAN :
         LET r == GfsInit(DefaultArgs, slice, BaseTracers)
         IN  /\ self = [ prognostics |-> physics ] @@ r.slf
             /\ kernel = [ NoKernel EXCEPT !.calls = r.calls, !.grid = r.grid ]
             /\ extra_dimensions = r.extra_dimensions
             /\ ctor = [ args |-> DefaultArgs, raised |-> r.raised,
                         extra_before |-> BaseTracers ]
    /\ state = InitialState
    /\ last = NoCall
    /\ nSteps = 0
    /\ nResync = 0
    /\ nMutations = 0
    /\ mutated = FALSE
    /\ dirtyCalls = 0
    /\ ThrottleIdle
    /\ AssemblerIdle
    /\ UtilIdle
    /\ FleetIdle
    /\ NumericIdle

\* The caller overwrites one grid value of its state directly, ahead of a
\* further advance call.
CallerMutate ==
    /\ nMutations < MaxMutations
    /\ nSteps < MaxSteps
    /\ ~mutated
    /\ \E qn \in CallerMutable, pt \in Points :
         state' = [ state EXCEPT ![qn][pt] = @ + 1 ]
    /\ mutated' = TRUE
    /\ nMutations' = nMutations + 1
    /\ UNCHANGED << hashSeed, self, kernel, last, nSteps, nResync, ctor,
                    extra_dimensions, dirtyCalls >>
    /\ UNCHANGED << throttleVars, assemblerVars, utilVars, fleetVars, numericVars >>

\* GfsDynamicalCore.__call__(state).  An outcome <<d, failAt>> is what the
\* kernel step does to its arrays (d) and the index in the plan of the step
\* that raises (failAt, 0 when none does).  The caller keeps the returned
\* state (state.update(new_state)); when the call raises it keeps the state it
\* passed.
GfsCall(outcomes) ==
    \E fresh \in { calculate_state_signature(self, hashSeed, state) } :
    \E chk \in { state_is_modified_externally(self, fresh) } :
    \E plan \in { StepPlan(chk.slf, chk.modified) } :
    \E raw1 \in { [ state EXCEPT !["gfs_tracers"] = TracerBundle(state) ] } :
    \E t_virt \in { [ pt \in Points |->
                        VirtualTemperature(state["air_temperature"][pt],
                                           state["specific_humidity"][pt]) ] } :
    \E o \in outcomes :
    \E d \in { o[1] } :
    \E failAt \in { o[2] } :
        /\ failAt <= Len(plan)
        /\ failAt > 0 => plan[failAt] \in FailingSteps
        /\ \E raw3 \in { IF failAt = 0 THEN PostStep(raw1, t_virt, d) ELSE raw1 } :
           \E trace \in { IF failAt = 0 THEN plan ELSE SubSeq(plan, 1, failAt) } :
           \E post \in { calculate_state_signature(chk.slf, hashSeed, raw3) } :
             /\ self' = IF failAt = 0
                        THEN store_current_state_signature(chk.slf, post)
                        ELSE chk.slf
             /\ kernel' = [ kernel EXCEPT !.calls = trace,
                                          !.pushed_tracers = raw1["gfs_tracers"],
                                          !.tracers = raw3["gfs_tracers"],
                                          !.t_virt =
                                              IF failAt = 0
                                              THEN KernelVirtualStep(t_virt, d)
                                              ELSE t_virt ]
             /\ state' = IF failAt = 0
                         THEN DictUpdate(state, OutputDict(raw3))
                         ELSE state
             /\ last' = [ status |-> IF failAt = 0 THEN "ok" ELSE "raised",
                          first |-> nSteps = 0,
                          mutatedBefore |-> mutated,
                          input |-> state,
                          stored |-> StoredSignature(self),
                          fresh |-> fresh,
                          checked |-> StoredSignature(chk.slf),
                          update_spectral_arrays |-> chk.modified,
                          trace |-> trace,
                          returned |-> failAt = 0,
                          outputs |-> IF failAt = 0 THEN _climt_outputs
                                      ELSE {} ]
             /\ nResync' = nResync + Count(trace, "update_spectral_arrays")
    /\ nSteps' = nSteps + 1
    /\ dirtyCalls' = dirtyCalls + (IF nSteps > 0 /\ mutated THEN 1 ELSE 0)
    /\ mutated' = FALSE
    /\ UNCHANGED << hashSeed, nMutations, ctor, extra_dimensions >>
    /\ UNCHANGED << throttleVars, assemblerVars, utilVars, fleetVars, numericVars >>

\* dycore(state) returns.
Advance ==
    /\ self.constructed
    /\ nSteps < MaxSteps
    /\ GfsCall(KernelOutcomes \X { 0 })

\* dycore(state) raises at one of its steps.
AdvanceRaises ==
    /\ self.constructed
    /\ nSteps < MaxSteps
    /\ GfsCall({ 0 } \X (1..MaxPlanLen))

Next == CallerMutate \/ Advance \/ AdvanceRaises

Spec == Init /\ [][Next]_vars

\* ------------------------------------------------- constructing an adapter
\* The constructor arguments that are tried.
LongitudeChoices == (1..MaxLons) \cup { DefaultLongitudes }
LatitudeChoices == { 0, DefaultLatitudes }
LevelChoices == { 0, SupportedLevels - 1, SupportedLevels, SupportedLevels + 1 }
TracerChoices == (-1)..MaxExtraTracers
DampedChoices == { -1, 0 }

ArgChoices ==
    [ number_of_latitudes     : LatitudeChoices,
      number_of_longitudes    : LongitudeChoices,
      number_of_levels        : LevelChoices,
      number_of_tracers       : TracerChoices,
      number_of_damped_levels : DampedChoices ]

\* A fresh process: the class is loaded, no adapter has been constructed.
AdapterIdle(key) ==
    /\ hashSeed = key
    /\ self = NoInstance
    /\ kernel = NoKernel
    /\ extra_dimensions = BaseTracers
    /\ ctor = NoCtor
    /\ state = InitialState
    /\ last = NoCall
    /\ nSteps = 0
    /\ nResync = 0
    /\ nMutations = 0
    /\ mutated = FALSE
    /\ dirtyCalls = 0

InitConstruct ==
    /\ \E key \in HashSeeds : AdapterIdle(key)
    /\ ThrottleIdle
    /\ AssemblerIdle
    /\ UtilIdle
    /\ FleetIdle
    /\ NumericIdle

\* GfsDynamicalCore(**args)
Construct ==
    /\ ctor = NoCtor
    /\ \E args \in ArgChoices, slice \in SliceChoices :
       \E r \in { GfsInit(args, slice, extra_dimensions) } :
         /\ self' = IF r.raised = "none"
                    THEN [ prognostics |-> FALSE ] @@ r.slf
                    ELSE r.slf
         /\ kernel' = [ kernel EXCEPT !.calls = r.calls, !.grid = r.grid ]
         /\ extra_dimensions' = r.extra_dimensions
         /\ ctor' = [ args |-> args, raised |-> r.raised,
                      extra_before |-> extra_dimensions ]
    /\ UNCHANGED << hashSeed, state, last, nSteps, nResync, nMutations,
                    mutated, dirtyCalls >>
    /\ UNCHANGED << throttleVars, assemblerVars, utilVars, fleetVars, numericVars >>

NextConstruct == Construct

SpecConstruct == InitConstruct /\ [][NextConstruct]_vars


\* -------------------------------------------- calling a throttled prognostic
InitThrottle ==
    /\ AdapterIdle(CHOOSE key \in HashSeeds : TRUE)
    /\ ThrottleIdle
    /\ AssemblerIdle
    /\ UtilIdle
    /\ FleetIdle
    /\ NumericIdle

\* instance i is called with a state whose 'time' is `time`
CallThrottled ==
    /\ Len(calls) < MaxCalls
    /\ \E i \in Instances, time \in 0..MaxTime :
       \E r \in { ThrottledCall(klass, instances[i], i, time) } :
         /\ klass' = r.cls
         /\ instances' = [ instances EXCEPT ![i] = r.dict ]
         /\ calls' = Append(calls, [ inst |-> i, time |-> time,
                                     recomputed |-> r.recomputed,
                                     returned |-> r.returned ])
    /\ UNCHANGED << adapterVars, assemblerVars, utilVars, fleetVars, numericVars >>

NextThrottle == CallThrottled

SpecThrottle == InitThrottle /\ [][NextThrottle]_vars


\* ----------------------------------------- assembling the tendency arrays
InitAssembler ==
    /\ AdapterIdle(CHOOSE key \in HashSeeds : TRUE)
    /\ ThrottleIdle
    /\ UtilIdle
    /\ FleetIdle
    /\ NumericIdle
    /\ \E ql \in QuantityLists, sk \in SUBSET Quantities,
          tk \in SUBSET Quantities, ss \in Shapes, ts \in Shapes :
            asmIn = AssemblerInput(ql, sk, tk, ss, ts)
    /\ asmOut = NotCalled

\* return_tendency_arrays_or_zeros(quantity_list, state, tendencies) is
\* called; it reads its arguments and writes none of them.
Assemble ==
    /\ asmOut = NotCalled
    /\ asmOut' = return_tendency_arrays_or_zeros(asmIn.quantity_list,
                                                 asmIn.state, asmIn.tendencies)
    /\ asmIn' = asmIn
    /\ UNCHANGED << adapterVars, throttleVars, utilVars, fleetVars, numericVars >>

NextAssembler == Assemble

SpecAssembler == InitAssembler /\ [][NextAssembler]_vars


\* ======================================================= adapter claims

\* the last advance call issued the kernel call `name`
InTrace(name) == \E i \in DOMAIN last.trace : last.trace[i] = name

HashNames == { "hash_u", "hash_v", "hash_temp", "hash_press", "hash_ps" }

\* at least one fresh hash of the last call differed from the stored one
HashMismatch == \E h \in HashNames : last.fresh[h] # last.stored[h]

\* C1: when the caller does not mutate the grid-space state between calls,
\* the resynchronization is issued at most once, and only by the first call:
\* a call that issues it is the first call or follows a caller mutation, and
\* the number of resynchronizations is at most one more than the number of
\* later calls that followed a mutation.
C1_ResyncOnlyFirstOrAfterMutation ==
    /\ (last.status # "none" /\ InTrace("update_spectral_arrays")) =>
          (last.first \/ last.mutatedBefore)
    /\ nResync <= 1 + dirtyCalls

\* a second call, given the state the first call returned (which the kernel
\* changed), completes without resynchronizing
C1_Witness ==
    /\ nSteps = 2 /\ nResync = 1 /\ dirtyCalls = 0
    /\ last.status = "ok" /\ ~last.first /\ ~last.mutatedBefore
    /\ last.input["eastward_wind"] # InitialState["eastward_wind"]
    /\ ~InTrace("update_spectral_arrays")
    /\ InTrace("take_one_step")

\* C2: the first advance call after construction issues the
\* resynchronization, because the default hashes stored at construction
\* differ from the five hashes of any state.
C2_FirstCallResyncs ==
    /\ (last.status # "none" /\ last.first) => HashMismatch
    /\ (last.status = "ok" /\ last.first) => InTrace("update_spectral_arrays")

\* C3: an advance call that gets as far as the resynchronization point (no
\* exception from the contained physics or an earlier kernel call) issues
\* the resynchronization exactly when at least one of the five fresh hashes
\* differs from the stored one; no call issues it otherwise; on a mismatch
\* the comparison overwrites all five stored hashes with the fresh ones, and
\* when all five match it leaves them as they were.
C3_ResyncIffHashMismatch ==
    last.status # "none" =>
        /\ (last.status = "ok" \/ InTrace("take_one_step")) =>
              (InTrace("update_spectral_arrays") <=> HashMismatch)
        /\ InTrace("update_spectral_arrays") => HashMismatch
        /\ last.update_spectral_arrays <=> HashMismatch
        /\ HashMismatch => last.checked = last.fresh
        /\ ~HashMismatch => last.checked = last.stored

\* a later call after the caller changed the temperature alone: one hash
\* differs, the call resynchronizes and all five stored hashes are fresh
C3_Witness ==
    /\ last.status = "ok" /\ ~last.first /\ last.mutatedBefore
    /\ last.fresh.hash_temp # last.stored.hash_temp
    /\ \A h \in HashNames \ { "hash_temp" } : last.fresh[h] = last.stored[h]
    /\ InTrace("update_spectral_arrays")
    /\ last.checked = last.fresh

\* C9: the tracer bundle an advance call pushes to the kernel holds in slot
\* 0 the call's specific humidity, in slot 1 its ozone mole fraction, in
\* slot 2 its cloud liquid water and in slot 3 its cloud ice, whatever the
\* four slots held on entry.
C9_TracerSlotOrder ==
    (last.status # "none" /\ InTrace("assign_grid_arrays")) =>
        /\ kernel.pushed_tracers[0] = last.input["specific_humidity"]
        /\ kernel.pushed_tracers[1] = last.input["mole_fraction_of_ozone_in_air"]
        /\ kernel.pushed_tracers[2] =
              last.input["mass_content_of_cloud_liquid_water_in_atmosphere_layer"]
        /\ kernel.pushed_tracers[3] =
              last.input["mass_content_of_cloud_ice_in_atmosphere_layer"]

\* a call whose bundle held other values on entry, after the caller changed
\* the specific humidity
C9_Witness ==
    /\ last.status = "ok" /\ InTrace("assign_grid_arrays")
    /\ last.input["specific_humidity"] # InitialState["specific_humidity"]
    /\ last.input["gfs_tracers"][0] # last.input["specific_humidity"]
    /\ last.input["gfs_tracers"][2] #
          last.input["mass_content_of_cloud_liquid_water_in_atmosphere_layer"]
    /\ kernel.pushed_tracers[0] = last.input["specific_humidity"]
    /\ kernel.pushed_tracers[2] # kernel.pushed_tracers[3]

\* C15 as stated: the quantities an advance call writes to the new state
\* (the declared output table) are the declared inputs minus surface
\* geopotential, relative vorticity and divergence of wind.
C15_OutputsOmitDrivingFields ==
    last.status = "ok" =>
        last.outputs = _climt_inputs \ { "surface_geopotential",
                                         "atmosphere_relative_vorticity",
                                         "divergence_of_wind" }

\* C15: the quantities an advance call writes to the new state (the
\* declared output table) are the declared inputs minus the tracer bundle
\* gfs_tracers alone; surface geopotential, relative vorticity and
\* divergence of wind are among the outputs.
C15_OutputsOmitTracerBundle ==
    last.status = "ok" =>
        /\ last.outputs = _climt_inputs \ { "gfs_tracers" }
        /\ { "surface_geopotential", "atmosphere_relative_vorticity",
             "divergence_of_wind" } \subseteq last.outputs
        /\ DOMAIN OutputDict(state) \subseteq last.outputs

\* a call that returned: vorticity is written, the tracer bundle is not
C15_Witness ==
    /\ last.status = "ok"
    /\ "atmosphere_relative_vorticity" \in last.outputs
    /\ "surface_geopotential" \in last.outputs
    /\ "gfs_tracers" \notin last.outputs
    /\ "gfs_tracers" \in _climt_inputs

\* the kernel calls that hand arrays to the kernel
Pushes ==
    { "assign_grid_arrays", "assign_pressure_arrays", "set_topography",
      "assign_tendencies" }

\* C17: an advance call that returns has issued, in this order: push grid
\* fields, push pressure fields, push topography, the contained physics if
\* one is configured, push tendencies, the resynchronization if and only if
\* flagged, advance one step, spectral-to-grid, recompute pressure; the
\* step is issued exactly once and nothing is pushed after it.
C17_KernelCallOrder ==
    last.status = "ok" =>
        /\ last.trace =
              << "assign_grid_arrays", "assign_pressure_arrays",
                 "set_topography" >>
              \o (IF self.prognostics THEN << "prognostics" >> ELSE << >>)
              \o << "assign_tendencies" >>
              \o (IF last.update_spectral_arrays
                  THEN << "update_spectral_arrays" >> ELSE << >>)
              \o << "take_one_step", "convert_to_grid", "calculate_pressure" >>
        /\ Cardinality({ i \in DOMAIN last.trace :
                           last.trace[i] = "take_one_step" }) = 1
        /\ \A i \in DOMAIN last.trace, j \in DOMAIN last.trace :
              (last.trace[i] = "take_one_step" /\ j > i) =>
                  last.trace[j] \notin Pushes
        /\ kernel.calls = last.trace

\* a call with a contained physics and a flagged resynchronization: all
\* nine calls
C17_Witness ==
    /\ last.status = "ok"
    /\ self.prognostics
    /\ last.update_spectral_arrays
    /\ Len(last.trace) = 9
    /\ last.trace[6] = "update_spectral_arrays"
    /\ last.trace[7] = "take_one_step"

\* C18: after an advance call that returns, and until the caller next
\* touches the state, the five stored hashes are the hashes of the samples
\* (at the adapter's fixed indices) of the five tracked quantities of the
\* state the call returned.
C18_StoredSignatureIsPostStep ==
    (last.status = "ok" /\ ~mutated) =>
        StoredSignature(self) = calculate_state_signature(self, hashSeed, state)

\* the step changed the tracked fields, and the stored signature is that of
\* the returned state and not that of the state that was passed in
C18_Witness ==
    /\ last.status = "ok"
    /\ ~mutated
    /\ state /= last.input
    /\ StoredSignature(self) = calculate_state_signature(self, hashSeed, state)
    /\ StoredSignature(self) /= calculate_state_signature(self, hashSeed, last.input)
    /\ StoredSignature(self) /= last.fresh

\* C19: the air temperature a returning advance call writes to the new
\* state is the stepped virtual temperature divided by (1 + fvirt*q) with q
\* the humidity the kernel holds after the step (tracer slot 0).
C19_InverseUsesPostStepHumidity ==
    (last.status = "ok" /\ ~mutated) =>
        \A pt \in Points :
            state["air_temperature"][pt] =
                AirTemperature(kernel.t_virt[pt], kernel.tracers[0][pt])

\* C19, what the code does: the divisor is built from the humidity array
\* that was passed in, which the call never rewrites.
C19_InverseUsesInputHumidity ==
    (last.status = "ok" /\ ~mutated) =>
        /\ state["specific_humidity"] = last.input["specific_humidity"]
        /\ \A pt \in Points :
              state["air_temperature"][pt] =
                  AirTemperature(kernel.t_virt[pt],
                                 last.input["specific_humidity"][pt])

\* the last advance call detected a mismatch and raised before it issued
\* the resynchronization, and the caller has not touched the state since
ResyncAborted ==
    /\ last.status = "raised"
    /\ last.update_spectral_arrays
    /\ ~InTrace("update_spectral_arrays")
    /\ ~mutated

\* C21: when an advance call detects a mismatch and raises before the
\* resynchronization, the next advance call on the same state issues the
\* resynchronization if it gets as far as the kernel step.
C21_AbortedResyncIsRetried ==
    [][ (ResyncAborted /\ nSteps' = nSteps + 1
            /\ Count(last'.trace, "take_one_step") > 0)
        => Count(last'.trace, "update_spectral_arrays") > 0 ]_vars

\* C21, what the code does: the comparison of the aborted call has already
\* stored the fresh hashes, so the next call on the same state finds no
\* mismatch and issues no resynchronization.
C21_AbortedResyncIsLost ==
    [][ (ResyncAborted /\ nSteps' = nSteps + 1)
        => /\ ~last'.update_spectral_arrays
           /\ last'.fresh = last'.stored
           /\ Count(last'.trace, "update_spectral_arrays") = 0 ]_vars

\* =================================================== constructor claims

\* the constructor has been called with arguments that pass its assertions
ValidArgs ==
    /\ ctor # NoCtor
    /\ ctor.args.number_of_tracers >= 0
    /\ ctor.args.number_of_levels > 0
    /\ ctor.args.number_of_latitudes > 0
    /\ ctor.args.number_of_longitudes > 0
    /\ ctor.args.number_of_damped_levels >= 0

\* the spectral dimension of the instance is (truncation+1)(truncation+2)/2,
\* and 198 longitudes give truncation 64 and spectral dimension 2145
SpectralDimOfTruncation ==
    /\ 2 * self._spectral_dim = (self._truncation + 1) * (self._truncation + 2)
    /\ self._num_lons = 198 =>
          (self._truncation = 64 /\ self._spectral_dim = 2145)

\* C8 as stated: for every longitude count >= 1 the truncation is
\* floor(longitude_count / 3) - 2, with the spectral dimension derived from it.
C8_TruncationIsFloorMinusTwo ==
    (ValidArgs /\ self.constructed) =>
        /\ self._num_lons = ctor.args.number_of_longitudes
        /\ self._truncation = (self._num_lons \div 3) - 2
        /\ SpectralDimOfTruncation

\* C8: the truncation is floor(longitude_count / 3) - 2 for 3 longitudes and
\* for 6 or more; for 1, 2, 4 and 5 longitudes int() rounds the negative
\* quotient toward zero and the truncation is floor(longitude_count / 3) - 1.
\* The spectral dimension is (truncation+1)(truncation+2)/2 throughout, and
\* 198 longitudes give truncation 64 and spectral dimension 2145.
C8_TruncationRoundsTowardZero ==
    (ValidArgs /\ self.constructed) =>
        /\ self._num_lons = ctor.args.number_of_longitudes
        /\ self._truncation =
              IF self._num_lons \in { 1, 2, 4, 5 }
              THEN (self._num_lons \div 3) - 1
              ELSE (self._num_lons \div 3) - 2
        /\ SpectralDimOfTruncation

\* an adapter built for 4 longitudes: truncation 0, not -1
C8_Witness ==
    /\ ValidArgs /\ self.constructed
    /\ self._num_lons = 4
    /\ self._truncation = 0
    /\ self._spectral_dim = 1

\* C10: constructing with a positive level count other than 28, the other
\* arguments valid, raises NotImplementedError before any kernel call is
\* issued, and leaves no adapter.
C10_UnsupportedLevelsRaise ==
    (ValidArgs /\ ctor.args.number_of_levels # 28) =>
        /\ ctor.raised = "NotImplementedError"
        /\ kernel.calls = << >>
        /\ ~self.constructed

\* 29 levels
C10_Witness ==
    /\ ValidArgs
    /\ ctor.args.number_of_levels = 29
    /\ ctor.raised = "NotImplementedError"
    /\ kernel.calls = << >>

\* C23: a construction that raises has issued no kernel call and leaves
\* the class attribute extra_dimensions['tracer_number'] as it was before
\* the construction.
C23_FailedConstructionLeavesSharedState ==
    (ctor # NoCtor /\ ctor.raised # "none") =>
        /\ kernel.calls = << >>
        /\ extra_dimensions = ctor.extra_before

\* C23, what the code does: a failed assertion leaves the class attribute
\* alone, but the level check comes after the tracer table is written, so a
\* construction that raises NotImplementedError has already set it to the
\* requested tracer count plus four; no kernel call is issued either way.
C23_LevelFailureRewritesTracerTable ==
    (ctor # NoCtor /\ ctor.raised # "none") =>
        /\ kernel.calls = << >>
        /\ ~self.constructed
        /\ ctor.raised = "AssertionError" =>
              extra_dimensions = ctor.extra_before
        /\ ctor.raised = "NotImplementedError" =>
              extra_dimensions = ctor.args.number_of_tracers + BaseTracers

\* =================================================== update throttle claims

\* the earlier throttled calls on the instance of the k-th call
EarlierCalls(k) == { j \in 1..(k - 1) : calls[j].inst = calls[k].inst }

\* the earlier calls on that instance in which the wrapped operation ran
EarlierUpdates(k) == { j \in EarlierCalls(k) : calls[j].recomputed }

LastOf(S) == CHOOSE j \in S : \A i \in S : i <= j

\* C4: on one instance the wrapped operation is invoked in a call exactly when
\* that instance has no earlier recomputation or the call's time is at least
\* the time of its last recomputation plus the interval D; a recomputing call
\* returns the fresh output and every other call returns the output cached by
\* the last recomputation. So calls at t0, t0 + D/2, t0 + D recompute twice
\* and the middle call returns the first call's output.
C4_RecomputeWhenIntervalElapsed ==
    \A k \in 1..Len(calls) :
        /\ calls[k].recomputed <=>
              \/ EarlierUpdates(k) = {}
              \/ calls[k].time >=
                    calls[LastOf(EarlierUpdates(k))].time + UpdateTimedelta
        /\ calls[k].recomputed =>
              calls[k].returned = original_call(calls[k].inst, calls[k].time)
        /\ ~calls[k].recomputed =>
              calls[k].returned = calls[LastOf(EarlierUpdates(k))].returned

\* one instance called at t0, then within the interval, then at t0 + D
C4_Witness ==
    /\ Len(calls) = 3
    /\ \A k \in 1..3 : calls[k].inst = calls[1].inst
    /\ calls[1].time < calls[2].time
    /\ calls[2].time < calls[1].time + UpdateTimedelta
    /\ calls[3].time = calls[1].time + UpdateTimedelta
    /\ calls[1].recomputed /\ ~calls[2].recomputed /\ calls[3].recomputed
    /\ calls[2].returned = calls[1].returned
    /\ calls[3].returned # calls[1].returned

\* C5: the first call on each instance of a throttled class recomputes,
\* whatever its time and whatever other instances have computed and cached.
C5_FirstCallOfInstanceRecomputes ==
    \A k \in 1..Len(calls) :
        EarlierCalls(k) = {} =>
            /\ calls[k].recomputed
            /\ calls[k].returned = original_call(calls[k].inst, calls[k].time)

\* a second instance is first called inside the interval of another
\* instance's cached update, and computes its own output
C5_Witness ==
    \E k \in 2..Len(calls) :
        /\ EarlierCalls(k) = {}
        /\ calls[1].inst # calls[k].inst
        /\ calls[1].recomputed
        /\ calls[k].time < calls[1].time + UpdateTimedelta
        /\ calls[k].recomputed
        /\ instances[calls[1].inst]._cached_output = calls[1].returned

RECURSIVE AloneAfter(_, _)
\* the class and the dictionary of instance i if, of the first n calls, only
\* those on instance i had been made, on a freshly altered class
AloneAfter(i, n) ==
    IF n = 0
    THEN [ cls |-> set_prognostic_update_frequency(UpdateTimedelta),
           dict |-> EmptyDict ]
    ELSE IF calls[n].inst = i
    THEN LET b == AloneAfter(i, n - 1)
             r == ThrottledCall(b.cls, b.dict, i, calls[n].time)
         IN  [ cls |-> r.cls, dict |-> r.dict ]
    ELSE AloneAfter(i, n - 1)

\* C24: under every interleaving of the calls on the instances of a
\* throttled class, each call recomputes and returns exactly what it would
\* if the calls on the other instances had never been made, each instance
\* holds the cache and last-recomputation time it would hold alone, and the
\* class attributes stay as set_prognostic_update_frequency left them.
C24_InstancesAreIndependent ==
    /\ klass = set_prognostic_update_frequency(UpdateTimedelta)
    /\ \A i \in Instances : instances[i] = AloneAfter(i, Len(calls)).dict
    /\ \A k \in 1..Len(calls) :
          \E b \in { AloneAfter(calls[k].inst, k - 1) } :
          \E r \in { ThrottledCall(b.cls, b.dict, calls[k].inst,
                                   calls[k].time) } :
              /\ calls[k].recomputed = r.recomputed
              /\ calls[k].returned = r.returned

\* one instance recomputes, another recomputes at a later time inside the
\* first one's interval, then the first is called again inside its interval:
\* it does not recompute and returns its own cached output
C24_Witness ==
    /\ Len(calls) = 3
    /\ calls[1].inst = calls[3].inst
    /\ calls[2].inst # calls[1].inst
    /\ calls[1].recomputed /\ calls[2].recomputed /\ ~calls[3].recomputed
    /\ calls[1].time < calls[2].time
    /\ calls[2].time <= calls[3].time
    /\ calls[3].time < calls[1].time + UpdateTimedelta
    /\ calls[3].returned = calls[1].returned
    /\ calls[3].returned # calls[2].returned
    /\ instances[calls[1].inst]._last_update_time = calls[1].time
    /\ instances[calls[2].inst]._last_update_time = calls[2].time


\* ================================================ tendency assembler claims

\* positions of quantity_list whose quantity is in state but not in tendencies
ZeroFilled ==
    { k \in 1..Len(asmIn.quantity_list) :
        /\ asmIn.quantity_list[k] \in DOMAIN asmIn.state
        /\ asmIn.quantity_list[k] \notin DOMAIN asmIn.tendencies }

\* positions of quantity_list whose quantity is in neither mapping
Missing ==
    { k \in 1..Len(asmIn.quantity_list) :
        asmIn.quantity_list[k] \notin
            DOMAIN asmIn.state \cup DOMAIN asmIn.tendencies }

\* C6: in the list return_tendency_arrays_or_zeros returns, the array at the
\* position of a requested quantity that is in state but not in tendencies is
\* all zero and has exactly the shape of that quantity's state array; the
\* list has one array per requested quantity.
C6_ZerosOfStateShape ==
    asmOut.raised = "none" =>
        /\ Len(asmOut.value) = Len(asmIn.quantity_list)
        /\ \A k \in ZeroFilled :
              /\ asmOut.value[k].shape = asmIn.state[asmIn.quantity_list[k]].shape
              /\ DOMAIN asmOut.value[k].data = 1..Size(asmOut.value[k].shape)
              /\ \A n \in DOMAIN asmOut.value[k].data : asmOut.value[k].data[n] = 0

\* a returned list with a zero-filled position next to a supplied tendency
\* whose shape differs from the state's
C6_Witness ==
    /\ asmOut.raised = "none"
    /\ \E k \in ZeroFilled : \E j \in 1..Len(asmIn.quantity_list) :
          /\ asmIn.quantity_list[j] \in DOMAIN asmIn.tendencies
          /\ asmOut.value[j].shape # asmOut.value[k].shape
          /\ asmOut.value[k] = zeros(asmIn.state[asmIn.quantity_list[k]].shape)
          /\ asmIn.state[asmIn.quantity_list[k]].data[1] # 0

\* C7: if a requested quantity is in neither state nor tendencies, the call
\* raises IndexError, the message names the missing quantity (the first one
\* in list order), no list is returned wherever in the list the quantity is,
\* and the state and tendency mappings are as they were passed.
C7_MissingQuantityRaises ==
    asmOut.raised # "not called" =>
        /\ asmOut.state = asmIn.state
        /\ asmOut.tendencies = asmIn.tendencies
        /\ asmOut.raised = "IndexError" <=> Missing # {}
        /\ Missing # {} =>
              /\ "value" \notin DOMAIN asmOut
              /\ \E k \in Missing :
                    /\ asmOut.message = asmIn.quantity_list[k]
                    /\ \A j \in Missing : k <= j

\* the missing quantity comes last, after a supplied tendency and a
\* zero-filled quantity would have been appended
C7_Witness ==
    /\ asmOut.raised = "IndexError"
    /\ Missing = { Len(asmIn.quantity_list) }
    /\ Len(asmIn.quantity_list) > 1
    /\ asmOut.message = asmIn.quantity_list[Len(asmIn.quantity_list)]
    /\ "value" \notin DOMAIN asmOut

\* C20: the returned list has one array per requested name, at the name's
\* position in the requested list; where the name is in tendencies the array
\* is the tendency's values in Fortran order, also when the name is in state
\* as well; the zero-filled array of the state's shape stands only where the
\* name is not in tendencies.
C20_TendencyTakesPrecedence ==
    asmOut.raised = "none" =>
        /\ DOMAIN asmOut.value = DOMAIN asmIn.quantity_list
        /\ \A k \in DOMAIN asmIn.quantity_list :
              IF asmIn.quantity_list[k] \in DOMAIN asmIn.tendencies
              THEN /\ asmOut.value[k].shape =
                        asmIn.tendencies[asmIn.quantity_list[k]].values.shape
                   /\ asmOut.value[k].data =
                        asmIn.tendencies[asmIn.quantity_list[k]].values.data
                   /\ asmOut.value[k].order = "F"
              ELSE asmOut.value[k] =
                       zeros(asmIn.state[asmIn.quantity_list[k]].shape)

\* two names are requested: the first is in state only, the second in both
\* mappings with a tendency whose shape is not the state's; the second
\* array is the tendency's, the first is zeros
C20_Witness ==
    /\ asmOut.raised = "none"
    /\ Len(asmIn.quantity_list) = 2
    /\ asmIn.quantity_list[1] \in DOMAIN asmIn.state \ DOMAIN asmIn.tendencies
    /\ asmIn.quantity_list[2] \in DOMAIN asmIn.state \cap DOMAIN asmIn.tendencies
    /\ asmIn.tendencies[asmIn.quantity_list[2]].values.shape
           # asmIn.state[asmIn.quantity_list[2]].shape
    /\ asmOut.value[2].data = asmIn.tendencies[asmIn.quantity_list[2]].values.data
    /\ asmOut.value[2].data[1] # 0
    /\ asmOut.value[1].data[1] = 0


\* ------------------------------------------------ calling the util helpers
InitUtil ==
    /\ AdapterIdle(CHOOSE key \in HashSeeds : TRUE)
    /\ ThrottleIdle
    /\ AssemblerIdle
    /\ FleetIdle
    /\ NumericIdle
    /\ utilOut = NotCalled
    /\ \/ \E K1 \in KeySets, K2 \in KeySets :
            utilIn = [ op |-> "ensure_no_shared_keys",
                       dict1 |-> DictOver(K1, 1), dict2 |-> DictOver(K2, 2) ]
       \/ \E n \in 0..MaxArrays, style \in { "positional", "keyword" } :
          \E arrays \in [ 1..n -> DataArrays ] :
            utilIn = [ op |-> "ensure_shared_coordinates",
                       style |-> style, arrays |-> arrays ]
       \/ \E r \in 0..MaxRank, data_dim_if_1d \in 0..4 :
          \E shape \in ShapesOfRank(r) :
            utilIn = [ op |-> "ensure_3d", value |-> Arange(shape),
                       data_dim_if_1d |-> data_dim_if_1d ]
       \/ \E n \in 1..MaxSources :
          \E Ks \in [ 1..n -> SUBSET MergeKeys ],
             kinds \in [ 1..n -> { "array", "scalar" } ] :
          \E sources \in { [ i \in 1..n |-> SourceDict(i, Ks[i], kinds[i]) ] } :
            utilIn = [ op |-> "add_dicts_inplace", sources |-> sources,
                       heap |-> SourceHeap(sources) ]

CallEnsureNoSharedKeys ==
    /\ utilIn.op = "ensure_no_shared_keys"
    /\ utilOut = NotCalled
    /\ utilOut' = ensure_no_shared_keys(utilIn.dict1, utilIn.dict2)
    /\ utilIn' = utilIn
    /\ UNCHANGED << adapterVars, throttleVars, assemblerVars, fleetVars,
                    numericVars >>

CallEnsureSharedCoordinates ==
    /\ utilIn.op = "ensure_shared_coordinates"
    /\ utilOut = NotCalled
    /\ utilOut' = ensure_shared_coordinates(utilIn.style, utilIn.arrays)
    /\ utilIn' = utilIn
    /\ UNCHANGED << adapterVars, throttleVars, assemblerVars, fleetVars,
                    numericVars >>

CallEnsure3d ==
    /\ utilIn.op = "ensure_3d"
    /\ utilOut = NotCalled
    /\ utilOut' = ensure_3d(utilIn.value, utilIn.data_dim_if_1d)
    /\ utilIn' = utilIn
    /\ UNCHANGED << adapterVars, throttleVars, assemblerVars, fleetVars,
                    numericVars >>

\* add_dicts_inplace(acc, source) for the next source, acc starting as {}.
CallAddDictsInplace ==
    /\ utilIn.op = "add_dicts_inplace"
    /\ \E before \in { IF utilOut = NotCalled
                        THEN [ acc |-> EmptyAccumulator, heap |-> utilIn.heap,
                               merged |-> 0 ]
                        ELSE utilOut } :
         /\ before.merged < Len(utilIn.sources)
         /\ \E r \in { add_dicts_inplace(before.acc,
                                          utilIn.sources[before.merged + 1],
                                          before.heap) } :
              utilOut' = [ raised |-> "none", acc |-> r.dict1,
                           heap |-> r.heap, merged |-> before.merged + 1 ]
    /\ utilIn' = utilIn
    /\ UNCHANGED << adapterVars, throttleVars, assemblerVars, fleetVars,
                    numericVars >>

NextUtil ==
    \/ CallAddDictsInplace
    \/ CallEnsure3d
    \/ CallEnsureNoSharedKeys
    \/ CallEnsureSharedCoordinates

SpecUtil == InitUtil /\ [][NextUtil]_vars

\* ======================================================= util helper claims

\* C11: ensure_no_shared_keys(d1, d2) raises SharedKeyException, with a
\* message that shows exactly the set of shared keys, exactly when the key
\* sets of d1 and d2 intersect; when they are disjoint it returns without
\* raising; in both cases neither mapping is modified.
C11_SharedKeysRaise ==
    (utilIn.op = "ensure_no_shared_keys" /\ utilOut # NotCalled) =>
        /\ utilOut.raised = "SharedKeyException" <=>
              DOMAIN utilIn.dict1 \cap DOMAIN utilIn.dict2 # {}
        /\ utilOut.raised = "SharedKeyException" =>
              utilOut.message = DOMAIN utilIn.dict1 \cap DOMAIN utilIn.dict2
        /\ utilOut.raised \in { "SharedKeyException", "none" }
        /\ utilOut.dict1 = utilIn.dict1
        /\ utilOut.dict2 = utilIn.dict2

\* two mappings that share exactly one of their keys
C11_Witness ==
    /\ utilIn.op = "ensure_no_shared_keys"
    /\ utilOut.raised = "SharedKeyException"
    /\ Cardinality(utilOut.message) = 1
    /\ Cardinality(DOMAIN utilIn.dict1) > 1
    /\ Cardinality(DOMAIN utilIn.dict2) > 1

\* C22: after any sequence of add_dicts_inplace(acc, source) calls, every
\* array a source holds has the elements it had before the first call (the
\* calls never assign to a source mapping, so its keys and references are
\* as passed).
C22_SourcesUnchangedByMerges ==
    (utilIn.op = "add_dicts_inplace" /\ utilOut # NotCalled) =>
        \A i \in 1..utilOut.merged : \A k \in DOMAIN utilIn.sources[i] :
            utilIn.sources[i][k].kind = "array" =>
                utilOut.heap[utilIn.sources[i][k].ref] =
                    utilIn.heap[utilIn.sources[i][k].ref]

\* C22, what the code does: a source's array changes only when the
\* accumulator got the key from that source first and a later source holds
\* the key too; the accumulator then refers to the source's own array and
\* the later value was added into it.
C22_FirstSourceIsAliased ==
    (utilIn.op = "add_dicts_inplace" /\ utilOut # NotCalled) =>
        \A i \in 1..utilOut.merged : \A k \in DOMAIN utilIn.sources[i] :
            (/\ utilIn.sources[i][k].kind = "array"
             /\ utilOut.heap[utilIn.sources[i][k].ref] #
                    utilIn.heap[utilIn.sources[i][k].ref])
            => /\ utilOut.acc[k] = utilIn.sources[i][k]
               /\ \A j \in 1..(i - 1) : k \notin DOMAIN utilIn.sources[j]
               /\ \E j \in (i + 1)..utilOut.merged :
                     k \in DOMAIN utilIn.sources[j]


\* C12: ensure_shared_coordinates raises nothing when every argument has the
\* same axis names and the same coordinate values per axis, and raises
\* InvalidStateException otherwise.
C12_SharedCoordinatesChecked ==
    (utilIn.op = "ensure_shared_coordinates" /\ utilOut # NotCalled) =>
        /\ SharedCoordinates(utilIn.arrays) => utilOut.raised = "none"
        /\ ~SharedCoordinates(utilIn.arrays) =>
              utilOut.raised = "InvalidStateException"


\* ensure_3d was called with a 1D array and an axis position 1, 2 or 3, and
\* returned a 3D array that has the input's length on that axis, length 1 on
\* the two others, and the input's data
BroadcastAlongAxis ==
    (Len(utilIn.value.shape) = 1 /\ utilIn.data_dim_if_1d \in 1..3) =>
        /\ utilOut.raised = "none"
        /\ Len(utilOut.value.shape) = 3
        /\ \A i \in 1..3 :
              utilOut.value.shape[i] =
                IF i = utilIn.data_dim_if_1d THEN utilIn.value.shape[1] ELSE 1
        /\ utilOut.value.data = utilIn.value.data

\* C13 as stated: a 1D input is broadcast along axis p, and an input of any
\* rank other than 1 makes the call fail.
C13_OnlyRankOneAccepted ==
    (utilIn.op = "ensure_3d" /\ utilOut # NotCalled) =>
        /\ BroadcastAlongAxis
        /\ Len(utilIn.value.shape) # 1 => utilOut.raised # "none"

\* C13: a 1D input with axis position p in {1,2,3} is returned as a 3D array
\* whose only axis that is not of length 1 is axis p, carrying the input's
\* data; a 3D input is returned as it is; an input of any other rank, and a
\* 1D input with any other axis position, fails with ValueError.
C13_Broadcast1dPass3d ==
    (utilIn.op = "ensure_3d" /\ utilOut # NotCalled) =>
        /\ BroadcastAlongAxis
        /\ Len(utilIn.value.shape) = 3 =>
              (utilOut.raised = "none" /\ utilOut.value = utilIn.value)
        /\ Len(utilIn.value.shape) \notin { 1, 3 } =>
              utilOut.raised = "ValueError"
        /\ (Len(utilIn.value.shape) = 1 /\ utilIn.data_dim_if_1d \notin 1..3) =>
              utilOut.raised = "ValueError"

\* a 1D array of two elements broadcast along the third axis
C13_Witness ==
    /\ utilIn.op = "ensure_3d"
    /\ utilIn.value.shape = << 2 >>
    /\ utilIn.data_dim_if_1d = 3
    /\ utilOut.raised = "none"
    /\ utilOut.value.shape = << 1, 1, 2 >>
    /\ utilOut.value.data = << 11, 12 >>


\* -------------------------------------- one process, more than one adapter
InitFleet ==
    /\ \E key \in HashSeeds : AdapterIdle(key)
    /\ ThrottleIdle
    /\ AssemblerIdle
    /\ UtilIdle
    /\ FleetIdle
    /\ NumericIdle

\* a = GfsDynamicalCore(number_of_levels=levels): __init__ runs against the
\* _gfs_dynamics module of the process whatever other instances exist.
ConstructAdapter ==
    \E a \in AdapterIds, slice \in SliceChoices,
       levels \in { SupportedLevels, SupportedLevels + 1 } :
      /\ ~adapters[a].constructed
      /\ \E r \in { GfsInit([ DefaultArgs EXCEPT !.number_of_levels = levels ],
                             slice, extra_dimensions) } :
           /\ adapters' = [ adapters EXCEPT ![a] =
                              IF r.raised = "none"
                              THEN [ prognostics |-> FALSE ] @@ r.slf
                              ELSE r.slf ]
           /\ kernelLog' = kernelLog \o IssuedBy(a, r.calls)
           /\ extra_dimensions' = r.extra_dimensions
      /\ UNCHANGED << hashSeed, self, state, kernel, last, nSteps, nResync,
                      nMutations, mutated, ctor, dirtyCalls >>
      /\ UNCHANGED << throttleVars, assemblerVars, utilVars, numericVars >>

\* a(state) returns: __call__ pushes to and steps the _gfs_dynamics module
\* of the process whatever other instances exist.
StepAdapter ==
    /\ nSteps < MaxSteps
    /\ \E a \in AdapterIds :
         /\ adapters[a].constructed
         /\ \E fresh \in { calculate_state_signature(adapters[a], hashSeed, state) } :
            \E chk \in { state_is_modified_externally(adapters[a], fresh) } :
            \E d \in KernelOutcomes :
            \E raw3 \in { PostStep(
                             [ state EXCEPT !["gfs_tracers"] = TracerBundle(state) ],
                             [ pt \in Points |->
                                 VirtualTemperature(state["air_temperature"][pt],
                                                    state["specific_humidity"][pt]) ],
                             d) } :
              /\ adapters' = [ adapters EXCEPT ![a] =
                    store_current_state_signature(chk.slf,
                        calculate_state_signature(chk.slf, hashSeed, raw3)) ]
              /\ kernelLog' = kernelLog \o
                    IssuedBy(a, StepPlan(chk.slf, chk.modified))
              /\ state' = DictUpdate(state, OutputDict(raw3))
    /\ nSteps' = nSteps + 1
    /\ UNCHANGED << hashSeed, self, kernel, last, nResync, nMutations, mutated,
                    ctor, extra_dimensions, dirtyCalls >>
    /\ UNCHANGED << throttleVars, assemblerVars, utilVars, numericVars >>

NextFleet == ConstructAdapter \/ StepAdapter

SpecFleet == InitFleet /\ [][NextFleet]_vars

\* --------------------------------- virtual temperature and back, in floats
InitRoundTrip ==
    /\ AdapterIdle(CHOOSE key \in HashSeeds : TRUE)
    /\ ThrottleIdle
    /\ AssemblerIdle
    /\ UtilIdle
    /\ FleetIdle
    /\ \E n \in (TMin * TSteps)..(TMax * TSteps), k \in 0..(QSteps - 1) :
         roundTrip = [ done |-> FALSE, T |-> Float(n, TSteps),
                       q |-> Float(k, QSteps) ]

\* the forward transform of line 289 and the inverse of line 347 with the
\* same humidity
TransformAndInvert ==
    /\ ~roundTrip.done
    /\ \E t_virt \in { fl_virtual_temperature(roundTrip.T, roundTrip.q) } :
         roundTrip' = [ done |-> TRUE, T |-> roundTrip.T, q |-> roundTrip.q,
                        t_virt |-> t_virt,
                        back |-> fl_air_temperature(t_virt, roundTrip.q) ]
    /\ UNCHANGED << adapterVars, throttleVars, assemblerVars, utilVars,
                    fleetVars >>

NextRoundTrip == TransformAndInvert

SpecRoundTrip == InitRoundTrip /\ [][NextRoundTrip]_vars

\* ======================================================= numerical claims

\* |x - y| in units of 2^e, for e no larger than either exponent
DistanceIn(x, y, e) ==
    LET a == x.m * Pow2(x.e - e)
        b == y.m * Pow2(y.e - e)
    IN  IF a >= b THEN a - b ELSE b - a

\* C16: for every temperature T of the physical range and every humidity q
\* in [0, 1), the forward transform T*(1 + fvirt*q) followed by the inverse
\* transform with the same q returns T within floating-point tolerance: the
\* result is T or one of the two representable numbers next to T.
C16_VirtualTemperatureRoundTrip ==
    roundTrip.done =>
        DistanceIn(roundTrip.back, roundTrip.T, roundTrip.T.e - 1)
            <= Pow2(1)

\* a round trip at non-zero humidity in which both roundings are inexact
\* and the result is not T itself
C16_Witness ==
    /\ roundTrip.done
    /\ roundTrip.q.m # 0
    /\ roundTrip.t_virt # roundTrip.T
    /\ roundTrip.back # roundTrip.T
    /\ DistanceIn(roundTrip.back, roundTrip.T, roundTrip.T.e - 1) <= Pow2(1)

\* ================================================= single-instance claims

\* the adapters that issued a call the kernel received
Drivers == { kernelLog[i].by : i \in DOMAIN kernelLog }

\* C14: at most one live adapter drives the process-wide kernel: while one
\* adapter is live no second adapter is constructed or stepped against the
\* kernel, so the kernel never receives calls from two adapters.
C14_SingleAdapterDrivesKernel ==
    /\ Cardinality({ a \in AdapterIds : adapters[a].constructed }) <= 1
    /\ Cardinality(Drivers) <= 1

====
